---- MODULE Spec2Model ----
(***************************************************************************)
(* caf::SRTrueInteraction (duneanaobj/StandardRecord/SRTrueInteraction.h): *)
(* the truth record of one simulated interaction, a class of public data   *)
(* members with default member initializers, and the two scoped            *)
(* enumerations Generator and ScatteringMode it uses.                      *)
(*                                                                         *)
(* The state is the set of live records (the original, and a copy once it  *)
(* has been copy-constructed).  The operations are the ones the class      *)
(* offers: default construction (Init), copy construction, and assignment  *)
(* to a public member (for the two std::vector members also push_back).    *)
(*                                                                         *)
(* Representation of values                                                *)
(*   int            a 32-bit two's complement integer                      *)
(*   unsigned int   a count (a natural number below 2^31)                  *)
(*   float          its IEEE-754 binary32 bit pattern, read as an int      *)
(*   a wider integer (long, a literal, an integer read from a file)        *)
(*                  <<hi, lo>>, standing for hi * 2^16 + lo, 0 <= lo < 2^16 *)
(*   enum class     the value of its underlying type int                   *)
(*   std::vector    a sequence;  std::string  a string                     *)
(*   SRVector3D     a triple of float bit patterns                         *)
(*   SRTrueParticle the PDG code of the particle                           *)
(***************************************************************************)
EXTENDS Integers, Sequences, FiniteSets, TLC

VARIABLES obj, op, nops

vars == <<obj, op, nops>>

(***************************************************************************)
(* Bounds of the model.                                                    *)
(***************************************************************************)
\* operations performed in one behaviour of Spec (all members)
MaxOps == 2
\* operations performed in one behaviour of SpecDaughters (the members the
\* daughter list and the classification are made of)
MaxDaughterOps == 3
\* length of prim
MaxPrim == 2
\* length of genVersion
MaxGenVersion == 2

(***************************************************************************)
(* Integer and floating-point representation.                              *)
(***************************************************************************)
\* the wide integer <<hi, lo>> whose value is the int v
Long(v) == <<v \div 65536, v % 65536>>

\* conversion of a wide integer to a 16-bit integer
ToInt16(w) == IF w[2] >= 32768 THEN w[2] - 65536 ELSE w[2]

\* conversion of a wide integer to int: the low 32 bits, two's complement
ToInt32(w) ==
    LET h == w[1] % 65536
    IN  (IF h >= 32768 THEN h - 65536 ELSE h) * 65536 + w[2]

\* std::numeric_limits<float>::quiet_NaN() (0x7FC00000)
QuietNaN == 2141192192 + 2097152

\* std::numeric_limits<float>::signaling_NaN() as a binary32 bit pattern:
\* sign 0, exponent 0xFF, quiet bit clear, payload non-zero (0x7FA00000)
NaN == 2141192192

\* binary32: exponent all ones and a non-zero fraction
IsNaN(b) == ((b \div 8388608) % 256) = 255 /\ (b % 8388608) # 0

\* binary32: a NaN whose quiet bit (bit 22) is clear
IsSignalingNaN(b) == IsNaN(b) /\ ((b \div 4194304) % 2) = 0

(***************************************************************************)
(* enum class Generator, enum class ScatteringMode.                        *)
(***************************************************************************)
GeneratorTags == {"kUnknownGenerator", "kGENIE", "kGIBUU", "kNEUT"}

UnknownTag(f) == IF f = "mode" THEN "kUnknownMode" ELSE "kUnknownGenerator"

\* the enumerators as declared, each with its explicit value
GeneratorDecl ==
    [ kUnknownGenerator |-> 0,
      kGENIE            |-> 1,
      kGIBUU            |-> 2,
      kNEUT             |-> 3 ]

\* static_cast<int>(Generator::tag)
GeneratorValue(tag) == GeneratorDecl[tag]

ScatteringModeTags ==
    {"kUnknownMode", "kQE", "kRes", "kDIS", "kCoh", "kCohElastic",
     "kElectronScattering", "kIMDAnnihilation", "kInverseBetaDecay",
     "kGlashowResonance", "kAMNuGamma", "kMEC", "kDiffractive", "kEM",
     "kWeakMix"}

\* the enumerators as declared, each with its explicit value
ScatteringModeDecl ==
    [ kUnknownMode        |-> -1,
      kQE                 |-> 0,
      kRes                |-> 1,
      kDIS                |-> 2,
      kCoh                |-> 3,
      kCohElastic         |-> 4,
      kElectronScattering |-> 5,
      kIMDAnnihilation    |-> 6,
      kInverseBetaDecay   |-> 7,
      kGlashowResonance   |-> 8,
      kAMNuGamma          |-> 9,
      kMEC                |-> 10,
      kDiffractive        |-> 11,
      kEM                 |-> 12,
      kWeakMix            |-> 13 ]

\* the discriminants a declaration without "= -1" on its first enumerator
\* would give: counted from zero
ScatteringModeValueFromZero(tag) == ScatteringModeDecl[tag] + 1

\* static_cast<int>(ScatteringMode::tag)
ScatteringModeValue(tag) == ScatteringModeDecl[tag]

\* the enumerators of each enumeration, by the name of the member holding it
TagsOf(f) == IF f = "mode" THEN ScatteringModeTags ELSE GeneratorTags

TagValue(f, tag) ==
    IF f = "mode" THEN ScatteringModeValue(tag) ELSE GeneratorValue(tag)

\* a decoder that maps what ScatteringMode does not document to kUnknownMode
StaticCastEnumOrUnknown(i) ==
    IF ToInt32(i) \in -1..13 THEN ToInt32(i) ELSE -1

\* static_cast<E>(i) for a scoped enumeration E: its underlying type is int,
\* so every int is a value of E and the result holds i converted to int
StaticCastEnum(i) == ToInt32(i)

\* the enumerator a value of the enumeration names ("" when it names none)
TagNamed(f, v) ==
    IF \E tag \in TagsOf(f) : TagValue(f, tag) = v
    THEN CHOOSE tag \in TagsOf(f) : TagValue(f, tag) = v
    ELSE ""

(***************************************************************************)
(* The members of SRTrueInteraction, by type.                              *)
(***************************************************************************)
BoolFields == {"isvtxcont", "iscc", "ischarm", "isseaquark"}

IntFields ==
    {"pdg", "pdgorig", "targetPDG", "hitnuc", "resnum", "parent_dcy_mode",
     "parent_pdg", "nprim"}

UIntFields == {"npiplus", "npiminus", "npizero", "nproton", "nneutron"}

FloatFields ==
    {"E", "time", "bjorkenX", "inelasticity", "Q2", "q0", "modq", "W", "t",
     "baseline", "xsec", "genweight", "parent_dcy_E", "imp_weight"}

VectorFields == {"vtx", "momentum", "position", "prod_vtx", "parent_dcy_mom"}

EnumFields == {"mode", "generator"}

Fields ==
    BoolFields \cup IntFields \cup UIntFields \cup FloatFields
        \cup VectorFields \cup EnumFields
        \cup {"genVersion", "genConfigString", "prim"}

\* SRVector3D(): the three components of a default-constructed vector
SRVector3D == <<NaN, NaN, NaN>>

\* SRTrueParticle: a daughter is the outgoing lepton or another particle
Daughters == {"lepton", "hadron"}

IsLepton(p) == p = "lepton"

\* hitnuc: the struck nucleon pair a code stands for ("" for any other code)
HitnucPair(code) ==
    CASE code = 2000000200 -> "nn"
      [] code = 2000000201 -> "np"
      [] code = 2000000202 -> "pp"
      [] OTHER             -> ""

\* the default member initializers
MemberInitializers ==
    [ isvtxcont       |-> FALSE,
      pdg             |-> 0,
      pdgorig         |-> 0,
      iscc            |-> FALSE,
      mode            |-> ScatteringModeValue("kUnknownMode"),
      targetPDG       |-> 0,
      hitnuc          |-> 0,
      E               |-> NaN,
      vtx             |-> SRVector3D,
      momentum        |-> SRVector3D,
      position        |-> SRVector3D,
      time            |-> NaN,
      bjorkenX        |-> NaN,
      inelasticity    |-> NaN,
      Q2              |-> NaN,
      q0              |-> NaN,
      modq            |-> NaN,
      W               |-> NaN,
      t               |-> NaN,
      baseline        |-> NaN,
      npiplus         |-> 0,
      npiminus        |-> 0,
      npizero         |-> 0,
      nproton         |-> 0,
      nneutron        |-> 0,
      ischarm         |-> FALSE,
      isseaquark      |-> FALSE,
      resnum          |-> 0,
      xsec            |-> NaN,
      genweight       |-> NaN,
      prod_vtx        |-> SRVector3D,
      parent_dcy_mom  |-> SRVector3D,
      parent_dcy_mode |-> -1,
      parent_pdg      |-> 0,
      parent_dcy_E    |-> NaN,
      imp_weight      |-> NaN,
      generator       |-> GeneratorValue("kUnknownGenerator"),
      genVersion      |-> <<>>,
      genConfigString |-> "",
      nprim           |-> 0,
      prim            |-> <<>> ]

\* a record whose resnum has no initializer and holds what the memory held
SRTrueInteractionResnumUnset == [MemberInitializers EXCEPT !.resnum = 7]

\* a record whose mode is value-initialized (zero, which is kQE)
SRTrueInteractionModeZero == [MemberInitializers EXCEPT !.mode = 0]

\* SRTrueInteraction(): the implicit default constructor
SRTrueInteraction == MemberInitializers

(***************************************************************************)
(* The values the operations are tried with.                               *)
(***************************************************************************)
\* sequences over S of length at most n
RECURSIVE SeqsUpTo(_, _)
SeqsUpTo(S, n) ==
    IF n = 0 THEN {<<>>}
    ELSE LET shorter == SeqsUpTo(S, n - 1)
         IN  shorter \cup {Append(s, x) : s \in {q \in shorter : Len(q) = n - 1}, x \in S}

\* for hitnuc: no nucleon, a neutron, the three pair codes, and 2^32 + 2112,
\* which does not fit an int;  for nprim: counts;  for
\* parent_dcy_mode: the default and a decay mode;  otherwise PDG codes
IntInputs(f) ==
    CASE f = "hitnuc"          -> {Long(0), Long(2112), Long(2000000200),
                                   Long(2000000201), Long(2000000202),
                                   <<65536, 2112>>}
      [] f = "nprim"           -> {Long(0), Long(1), Long(2)}
      [] f = "parent_dcy_mode" -> {Long(-1), Long(0), Long(5)}
      [] OTHER                 -> {Long(0), Long(14)}

\* counts
UIntInputs == {0, 2}

\* the sentinel and 1.0f (0x3F800000)
FloatInputs == {NaN, 1065353216}

VectorInputs == {SRVector3D, <<0, 0, 1065353216>>}

\* ints read back from a file: every documented discriminant of the member's
\* enumeration, and ints that are none (-1 is none for Generator)
EnumRawInputs(f) ==
    {Long(TagValue(f, tag)) : tag \in TagsOf(f)}
        \cup {Long(-2), Long(14), Long(99)}
        \cup (IF f = "generator" THEN {Long(-1)} ELSE {})

GenVersionInputs == SeqsUpTo({3}, MaxGenVersion)

GenConfigStringInputs == {"", "G18_02a_00_000"}

PrimInputs == SeqsUpTo(Daughters, MaxPrim)

(***************************************************************************)
(* Operations.  t names the record operated on.                            *)
(***************************************************************************)
Done(kind, t, f, tag, raw) ==
    /\ op' = [kind |-> kind, target |-> t, field |-> f, tag |-> tag, raw |-> raw]
    /\ nops' = nops + 1

\* an assignment that refuses a count that is not the length of prim
SetFieldValidated(t, f, v) ==
    /\ t \in DOMAIN obj
    /\ f = "nprim" => v = Len(obj[t].prim)
    /\ obj' = [obj EXCEPT ![t][f] = v]

\* vtx and prod_vtx, and momentum and parent_dcy_mom, held by reference to
\* one vector each
SetFieldAliased(t, f, v) ==
    /\ t \in DOMAIN obj
    /\ obj' = [obj EXCEPT ![t] =
                 CASE f \in {"vtx", "prod_vtx"} ->
                        [@ EXCEPT !.vtx = v, !.prod_vtx = v]
                   [] f \in {"momentum", "parent_dcy_mom"} ->
                        [@ EXCEPT !.momentum = v, !.parent_dcy_mom = v]
                   [] OTHER -> [@ EXCEPT ![f] = v]]

\* r.f = v: the member f of record t gets the value v; nothing is validated
\* and no other member and no other record is written
SetField(t, f, v) ==
    /\ t \in DOMAIN obj
    /\ obj' = [obj EXCEPT ![t][f] = v]

\* an insertion at the front
PushFront(s, x) == <<x>> \o s

\* std::vector<T>::push_back(x)
PushBack(s, x) == Append(s, x)

AssignBool(t, f, v) ==
    /\ SetField(t, f, v)
    /\ Done("assign", t, f, "", Long(0))

AssignInt(t, f, v) ==
    /\ SetField(t, f, ToInt32(v))
    /\ Done("assign", t, f, "", v)

AssignUInt(t, f, v) ==
    /\ SetField(t, f, v)
    /\ Done("assign", t, f, "", Long(0))

AssignFloat(t, f, v) ==
    /\ SetField(t, f, v)
    /\ Done("assign", t, f, "", Long(0))

AssignVector(t, f, v) ==
    /\ SetField(t, f, v)
    /\ Done("assign", t, f, "", Long(0))

\* r.mode = ScatteringMode::tag;  r.generator = Generator::tag
AssignEnum(t, f, tag) ==
    /\ SetField(t, f, TagValue(f, tag))
    /\ Done("assign", t, f, tag, Long(0))

\* r.mode = static_cast<ScatteringMode>(i): an integer read back from a file
AssignEnumFromInt(t, f, i) ==
    /\ SetField(t, f, StaticCastEnum(i))
    /\ Done("decode", t, f, "", i)

AssignGenVersion(t, v) ==
    /\ SetField(t, "genVersion", v)
    /\ Done("assign", t, "genVersion", "", Long(0))

PushBackGenVersion(t, x) ==
    /\ t \in DOMAIN obj
    /\ Len(obj[t].genVersion) < MaxGenVersion
    /\ SetField(t, "genVersion", PushBack(obj[t].genVersion, x))
    /\ Done("push_back", t, "genVersion", "", Long(0))

AssignGenConfigString(t, v) ==
    /\ SetField(t, "genConfigString", v)
    /\ Done("assign", t, "genConfigString", "", Long(0))

AssignPrim(t, v) ==
    /\ SetField(t, "prim", v)
    /\ Done("assign", t, "prim", "", Long(0))

PushBackPrim(t, p) ==
    /\ t \in DOMAIN obj
    /\ Len(obj[t].prim) < MaxPrim
    /\ SetField(t, "prim", PushBack(obj[t].prim, p))
    /\ Done("push_back", t, "prim", "", Long(0))

\* a hand-written copy that forgets the count
CopyWithoutCount(r) == [r EXCEPT !.nprim = 0]

\* SRTrueInteraction copy(orig): the implicit copy constructor copies every
\* member by value
CopyOf(r) == r

CopyConstruct ==
    /\ "copy" \notin DOMAIN obj
    /\ obj' = obj @@ ("copy" :> CopyOf(obj["orig"]))
    /\ Done("copy", "copy", "", "", Long(0))

Init ==
    /\ obj = ("orig" :> SRTrueInteraction)
    /\ op = [kind |-> "construct", target |-> "orig", field |-> "", tag |-> "",
             raw |-> Long(0)]
    /\ nops = 0

Objects == {"orig", "copy"}

\* the bound on the operations of one behaviour
More == nops < MaxOps

Next ==
    \/ More /\ \E t \in Objects, f \in BoolFields, v \in BOOLEAN : AssignBool(t, f, v)
    \/ More /\ \E t \in Objects, f \in IntFields : \E v \in IntInputs(f) : AssignInt(t, f, v)
    \/ More /\ \E t \in Objects, f \in UIntFields, v \in UIntInputs : AssignUInt(t, f, v)
    \/ More /\ \E t \in Objects, f \in FloatFields, v \in FloatInputs : AssignFloat(t, f, v)
    \/ More /\ \E t \in Objects, f \in VectorFields, v \in VectorInputs : AssignVector(t, f, v)
    \/ More /\ \E t \in Objects, f \in EnumFields : \E tag \in TagsOf(f) : AssignEnum(t, f, tag)
    \/ More /\ \E t \in Objects, f \in EnumFields : \E i \in EnumRawInputs(f) : AssignEnumFromInt(t, f, i)
    \/ More /\ \E t \in Objects, v \in GenVersionInputs : AssignGenVersion(t, v)
    \/ More /\ \E t \in Objects : PushBackGenVersion(t, 3)
    \/ More /\ \E t \in Objects, v \in GenConfigStringInputs : AssignGenConfigString(t, v)
    \/ More /\ \E t \in Objects, v \in PrimInputs : AssignPrim(t, v)
    \/ More /\ \E t \in Objects, p \in Daughters : PushBackPrim(t, p)
    \/ More /\ CopyConstruct

Spec == Init /\ [][Next]_vars

\* the members the daughter list and the classification are made of, and one
\* member of each other scalar type
DaughterEnumInputs == {Long(-1), Long(10), Long(14)}

MoreDaughters == nops < MaxDaughterOps

NextDaughters ==
    \/ MoreDaughters /\ \E t \in Objects, v \in BOOLEAN : AssignBool(t, "iscc", v)
    \/ MoreDaughters /\ \E t \in Objects, v \in IntInputs("nprim") : AssignInt(t, "nprim", v)
    \/ MoreDaughters /\ \E t \in Objects, i \in DaughterEnumInputs : AssignEnumFromInt(t, "mode", i)
    \/ MoreDaughters /\ \E t \in Objects, v \in UIntInputs : AssignUInt(t, "npiplus", v)
    \/ MoreDaughters /\ \E t \in Objects, v \in FloatInputs : AssignFloat(t, "E", v)
    \/ MoreDaughters /\ \E t \in Objects, v \in VectorInputs : AssignVector(t, "vtx", v)
    \/ MoreDaughters /\ \E t \in Objects, v \in PrimInputs : AssignPrim(t, v)
    \/ MoreDaughters /\ \E t \in Objects, p \in Daughters : PushBackPrim(t, p)
    \/ MoreDaughters /\ CopyConstruct

SpecDaughters == Init /\ [][NextDaughters]_vars

(***************************************************************************)
(* Properties.                                                             *)
(***************************************************************************)
\* the state right after default construction
Constructed == op.kind = "construct"

\* an operation that wrote a member of an existing record
Wrote(o) == o.kind \in {"assign", "decode", "push_back"}

\* the documented table of discriminants
DocumentedDiscriminants(f) ==
    IF f = "mode"
    THEN [ kUnknownMode |-> -1, kQE |-> 0, kRes |-> 1, kDIS |-> 2, kCoh |-> 3,
           kCohElastic |-> 4, kElectronScattering |-> 5,
           kIMDAnnihilation |-> 6, kInverseBetaDecay |-> 7,
           kGlashowResonance |-> 8, kAMNuGamma |-> 9, kMEC |-> 10,
           kDiffractive |-> 11, kEM |-> 12, kWeakMix |-> 13 ]
    ELSE [ kUnknownGenerator |-> 0, kGENIE |-> 1, kGIBUU |-> 2, kNEUT |-> 3 ]

\* the declared enumerators are the documented ones, each with its documented
\* discriminant, and no two of one enumeration share a discriminant
DeclaredAsDocumented ==
    \A f \in EnumFields :
        /\ TagsOf(f) = DOMAIN DocumentedDiscriminants(f)
        /\ \A tag \in TagsOf(f) :
               TagValue(f, tag) = DocumentedDiscriminants(f)[tag]
        /\ \A a, b \in TagsOf(f) : TagValue(f, a) = TagValue(f, b) => a = b

\* C1: every Generator tag and every ScatteringMode tag has the discriminant
\* of the documented table (Generator 0..3, ScatteringMode -1..13 in the
\* documented order), no two tags of one vocabulary share an integer, and a
\* member assigned a tag holds the tag's documented integer.
C1_DiscriminantTable ==
    /\ DeclaredAsDocumented
    /\ (op.kind = "assign" /\ op.field \in EnumFields)
         => obj[op.target][op.field] = DocumentedDiscriminants(op.field)[op.tag]

\* C1 witness: kMEC was assigned to mode, which now holds 10.
C1_Witness ==
    /\ op.kind = "assign"
    /\ op.field = "mode"
    /\ op.tag = "kMEC"
    /\ obj[op.target].mode = 10

\* C2 as stated: right after default construction every plain integer member
\* is zero, and genVersion and genConfigString are empty.
C2_AllIntegersZero ==
    Constructed =>
        /\ \A f \in {"pdg", "pdgorig", "targetPDG", "hitnuc", "npiplus",
                     "npiminus", "npizero", "nproton", "nneutron", "resnum",
                     "parent_dcy_mode", "parent_pdg", "nprim"} :
             obj["orig"][f] = 0
        /\ obj["orig"].genVersion = <<>>
        /\ obj["orig"].genConfigString = ""

\* C2 amended: right after default construction every plain integer member
\* other than parent_dcy_mode is zero, parent_dcy_mode is -1, and genVersion
\* and genConfigString are empty.
C2_IntegerDefaults ==
    Constructed =>
        /\ \A f \in {"pdg", "pdgorig", "targetPDG", "hitnuc", "npiplus",
                     "npiminus", "npizero", "nproton", "nneutron", "resnum",
                     "parent_pdg", "nprim"} :
             obj["orig"][f] = 0
        /\ obj["orig"].parent_dcy_mode = -1
        /\ obj["orig"].genVersion = <<>>
        /\ obj["orig"].genConfigString = ""
        /\ IntFields \cup UIntFields =
             {"pdg", "pdgorig", "targetPDG", "hitnuc", "npiplus", "npiminus",
              "npizero", "nproton", "nneutron", "resnum", "parent_dcy_mode",
              "parent_pdg", "nprim"}

\* C2 witness: the default-constructed record, parent_dcy_mode at -1.
C2_Witness ==
    /\ Constructed
    /\ obj["orig"].parent_dcy_mode = -1
    /\ obj["orig"].resnum = 0

\* C3: right after default construction every scalar float member holds the
\* signaling-NaN sentinel, and none holds an ordinary number.
C3_FloatDefaults ==
    Constructed =>
        /\ \A f \in {"E", "time", "bjorkenX", "inelasticity", "Q2", "q0",
                     "modq", "W", "t", "baseline", "xsec", "genweight",
                     "parent_dcy_E", "imp_weight"} :
             /\ obj["orig"][f] = NaN
             /\ IsSignalingNaN(obj["orig"][f])
        /\ FloatFields =
             {"E", "time", "bjorkenX", "inelasticity", "Q2", "q0", "modq", "W",
              "t", "baseline", "xsec", "genweight", "parent_dcy_E",
              "imp_weight"}

\* C3 witness: the default-constructed record, E a NaN with the quiet bit
\* clear.
C3_Witness ==
    /\ Constructed
    /\ IsNaN(obj["orig"].E)
    /\ (obj["orig"].E \div 4194304) % 2 = 0

\* C4: right after default construction the four flags are false, mode is
\* kUnknownMode, generator is kUnknownGenerator, prim is empty and nprim is
\* zero.
C4_FlagEnumDaughterDefaults ==
    Constructed =>
        /\ \A f \in {"isvtxcont", "iscc", "ischarm", "isseaquark"} :
             obj["orig"][f] = FALSE
        /\ BoolFields = {"isvtxcont", "iscc", "ischarm", "isseaquark"}
        /\ obj["orig"].mode = ScatteringModeValue("kUnknownMode")
        /\ obj["orig"].generator = GeneratorValue("kUnknownGenerator")
        /\ obj["orig"].prim = <<>>
        /\ obj["orig"].nprim = 0

\* C4 witness: the default-constructed record, whose mode names kUnknownMode.
C4_Witness ==
    /\ Constructed
    /\ TagNamed("mode", obj["orig"].mode) = "kUnknownMode"
    /\ TagNamed("generator", obj["orig"].generator) = "kUnknownGenerator"
    /\ Len(obj["orig"].prim) = 0

\* nprim agrees with the length of prim
CountMatches(r) == r.nprim = Len(r.prim)

\* C5 as stated: in every state reached by assignments, nprim equals the
\* length of prim.
C5_CountAlwaysMatches == \A t \in DOMAIN obj : CountMatches(obj[t])

\* C5 amended: nprim equals the length of prim right after default
\* construction; copy construction carries the agreement over to the copy,
\* and every assignment to a member other than nprim and prim keeps it.
C5_CountKeptByOtherMembers ==
    /\ CountMatches(SRTrueInteraction)
    /\ [][\A t \in DOMAIN obj' :
            LET before == IF t \in DOMAIN obj THEN obj[t] ELSE obj["orig"]
            IN  (/\ CountMatches(before)
                 /\ ~(op'.target = t /\ Wrote(op') /\ op'.field \in {"nprim", "prim"}))
                    => CountMatches(obj'[t])]_vars

\* C5 witness: a record with one daughter and nprim = 1 was copied, and the
\* copy agrees as well.
C5_Witness ==
    /\ op.kind = "copy"
    /\ obj["copy"].nprim = 1
    /\ Len(obj["copy"].prim) = 1

\* C6: no operation fails: in every state, every assignment of every value to
\* every member of every live record can be carried out, as can an append and
\* a copy construction.
C6_NoOperationFails ==
    /\ \A t \in DOMAIN obj :
         /\ \A f \in BoolFields, v \in BOOLEAN : ENABLED AssignBool(t, f, v)
         /\ \A f \in IntFields : \A v \in IntInputs(f) : ENABLED AssignInt(t, f, v)
         /\ \A f \in UIntFields, v \in UIntInputs : ENABLED AssignUInt(t, f, v)
         /\ \A f \in FloatFields, v \in FloatInputs : ENABLED AssignFloat(t, f, v)
         /\ \A f \in VectorFields, v \in VectorInputs : ENABLED AssignVector(t, f, v)
         /\ \A f \in EnumFields : \A tag \in TagsOf(f) : ENABLED AssignEnum(t, f, tag)
         /\ \A f \in EnumFields : \A i \in EnumRawInputs(f) :
               ENABLED AssignEnumFromInt(t, f, i)
         /\ \A v \in GenVersionInputs : ENABLED AssignGenVersion(t, v)
         /\ \A v \in GenConfigStringInputs : ENABLED AssignGenConfigString(t, v)
         /\ \A v \in PrimInputs : ENABLED AssignPrim(t, v)
         /\ Len(obj[t].prim) < MaxPrim
               => \A p \in Daughters : ENABLED PushBackPrim(t, p)
         /\ Len(obj[t].genVersion) < MaxGenVersion
               => ENABLED PushBackGenVersion(t, 3)
    /\ "copy" \notin DOMAIN obj => ENABLED CopyConstruct

\* C6 witness: a record with nprim = 2, a one-element prim and a mode that
\* names no tag.
C6_Witness ==
    \E t \in DOMAIN obj :
        /\ obj[t].nprim = 2
        /\ Len(obj[t].prim) = 1
        /\ TagNamed("mode", obj[t].mode) = ""

DocumentedTag(f, w) ==
    IF \E tag \in TagsOf(f) : Long(TagValue(f, tag)) = w
    THEN CHOOSE tag \in TagsOf(f) : Long(TagValue(f, tag)) = w
    ELSE ""

\* C8 as stated: decoding a documented discriminant yields the tag with that
\* value, and decoding any other integer yields the Unknown tag.
C8_UndocumentedDecodesToUnknown ==
    op.kind = "decode" =>
        LET tag == DocumentedTag(op.field, op.raw)
        IN  obj[op.target][op.field] =
                TagValue(op.field, IF tag = "" THEN UnknownTag(op.field) ELSE tag)

\* C8 amended: decoding a documented discriminant yields the tag with that
\* value; decoding any other int keeps the int as it is, a value of the
\* enumeration that names no tag.
C8_DecodeKeepsInteger ==
    op.kind = "decode" =>
        LET tag == DocumentedTag(op.field, op.raw)
            got == obj[op.target][op.field]
        IN  /\ Long(got) = op.raw
            /\ TagNamed(op.field, got) = tag

\* C8 witness: 14 was decoded into generator, which holds 14 and names no tag.
C8_Witness ==
    /\ op.kind = "decode"
    /\ op.field = "generator"
    /\ op.raw = Long(14)
    /\ obj[op.target].generator = 14

\* C9: each of 2000000200, 2000000201, 2000000202 is stored in hitnuc
\* unchanged and is read as the pair nn, np, pp; no other value of hitnuc is
\* read as a pair.
C9_PairCodes ==
    LET Pairs == [nn |-> 2000000200, np |-> 2000000201, pp |-> 2000000202]
    IN  /\ (op.kind = "assign" /\ op.field = "hitnuc") =>
              \A k \in DOMAIN Pairs :
                  op.raw = Long(Pairs[k]) =>
                      /\ obj[op.target].hitnuc = Pairs[k]
                      /\ HitnucPair(obj[op.target].hitnuc) = k
        /\ \A t \in DOMAIN obj :
              HitnucPair(obj[t].hitnuc) # ""
                  <=> \E k \in DOMAIN Pairs : obj[t].hitnuc = Pairs[k]

\* C9 witness: 2000000201 was assigned to hitnuc and is read as np.
C9_Witness ==
    /\ op.kind = "assign"
    /\ op.field = "hitnuc"
    /\ op.raw = Long(2000000201)
    /\ obj[op.target].hitnuc = 2000000201
    /\ HitnucPair(obj[op.target].hitnuc) = "np"

\* C10: an operation on one member of a record leaves every other member of
\* that record and every member of every other record unchanged, and a copy
\* starts with the values of its source.
C10_MembersIndependent ==
    [][/\ \A t \in DOMAIN obj : t # op'.target => obj'[t] = obj[t]
       /\ Wrote(op') =>
             \A g \in Fields \ {op'.field} :
                 obj'[op'.target][g] = obj[op'.target][g]
       /\ op'.kind = "copy" => obj'["copy"] = obj["orig"]]_vars

\* C10 witness: vtx of a copy, equal to its prod_vtx until then, was assigned
\* another value; prod_vtx of the copy and the original hold what they held.
C10_Witness ==
    /\ op.kind = "assign"
    /\ op.target = "copy"
    /\ op.field = "vtx"
    /\ obj["copy"].vtx # SRVector3D
    /\ obj["copy"].prod_vtx = SRVector3D
    /\ obj["orig"] = SRTrueInteraction

====
